---- MODULE Spec2Model ----
(***************************************************************************)
(* The rental-return workflow of the movie-rental backend:                 *)
(* POST /api/returns (routes/returns.js) with its middleware chain         *)
(* [auth, validate(validateReturn)], the Rental model (models/rental.js)   *)
(* and the two MongoDB collections it touches (rentals, movies).           *)
(*                                                                         *)
(* Every request is one invocation of the route.  Node runs a handler      *)
(* without interruption up to its next await, so an invocation is a        *)
(* sequence of atomic steps separated by the three awaited store calls:    *)
(*   Request  auth, validate, handler up to `await Rental.lookup(..)`      *)
(*   Lookup   the findOne and the handler up to `await rental.save()`      *)
(*   Save     the save and the handler up to `await Movie.update(..)`      *)
(*   Update   the $inc and `res.send(rental)`                              *)
(* Time is counted in ticks, TicksPerDay ticks to the day.                 *)
(***************************************************************************)
EXTENDS Integers, Sequences, FiniteSets, TLC

\* ---------------------------------------------------------------- bounds
NumCalls == 2
MaxTime == 1
TicksPerDay == 2
MaxPuts == 1

Calls == 1..NumCalls

\* ------------------------------------------------------------ option type
None == <<>>
Some(x) == <<x>>
IsSet(o) == o # <<>>
Val(o) == o[1]

\* ------------------------------------------------------------ identifiers
CustomerIds == {"c1", "c2"}
MovieIds == {"m1", "m2"}
Missing == "<missing>"
Malformed == "1234"
ObjectIds == CustomerIds \cup MovieIds

\* x-auth-token header values: absent/empty, a string that does not verify,
\* a token signed with the private key
NoToken == ""
BadToken == "a"
GoodToken == "jwt"
Tokens == {NoToken, BadToken, GoodToken}

Bodies == [customerId : CustomerIds \cup {Missing, Malformed},
           movieId : MovieIds \cup {Missing, Malformed}]

VARIABLES now, rentals, movies, pc, tok, loc, res, log, puts, genres, greq, vreq

vars == <<now, rentals, movies, pc, tok, loc, res, log, puts, genres, greq, vreq>>

\* ------------------------------------------------------------ rental model
\* a started day counted as a whole day
DiffDaysRoundUp(t, dateOut) == (t - dateOut + TicksPerDay - 1) \div TicksPerDay

\* moment().diff(dateOut, 'days'): the difference truncated toward zero
DiffDays(t, dateOut) ==
  IF t >= dateOut THEN (t - dateOut) \div TicksPerDay
                  ELSE 0 - ((dateOut - t) \div TicksPerDay)

\* the movies collection, by _id: the movies that are out
InitialMovies(store) ==
  [m \in {store[r].movie : r \in DOMAIN store} |->
     [numberInStock |-> IF m = "m1" THEN 10 ELSE 0, dailyRentalRate |-> 2]]

\* the fee taken from the dailyRentalRate of the movie document
ReturnMovieRate(doc, t1, t2) ==
  [doc EXCEPT !.dateReturned = Some(t1),
              !.rentalFee = Some(DiffDays(t2, doc.dateOut) *
                                   InitialMovies(<<doc>>)[doc.movie].dailyRentalRate)]

\* dateReturned taken from the second reading of the clock, a day later
ReturnLate(doc, t1, t2) ==
  [doc EXCEPT !.dateReturned = Some(t2 + TicksPerDay),
              !.rentalFee = Some(DiffDays(t2, doc.dateOut) * doc.dailyRentalRate)]

\* rentalSchema.methods.return: new Date() is read at t1, moment() at t2
Return(doc, t1, t2) ==
  [doc EXCEPT !.dateReturned = Some(t1),
              !.rentalFee = Some(DiffDays(t2, doc.dateOut) * doc.dailyRentalRate)]

\* the query with its 'movie._id' condition left out
MatchesCustomerOnly(store, customerId, movieId) ==
  {r \in DOMAIN store : store[r].customer = customerId}

\* rentalSchema.statics.lookup: findOne returns the first matching document
\* in the collection's order, 0 stands for null
Matches(store, customerId, movieId) ==
  {r \in DOMAIN store : store[r].customer = customerId /\ store[r].movie = movieId}

RentalLookup(store, customerId, movieId) ==
  LET ms == Matches(store, customerId, movieId)
  IN IF ms = {} THEN 0 ELSE CHOOSE r \in ms : \A q \in ms : r <= q

\* the schema without `min: 0`
ValidRentalAlways(doc) == TRUE

\* rentalFee: { type: Number, min: 0 }, checked by save()
ValidRental(doc) == IsSet(doc.rentalFee) => Val(doc.rentalFee) >= 0

\* the check `if (rental.dateReturned)` left out
AlreadyProcessedNever(doc) == FALSE

\* if (rental.dateReturned)
AlreadyProcessed(doc) == IsSet(doc.dateReturned)

\* the save writing dateReturned alone
SaveDocDateOnly(store, doc) ==
  [store EXCEPT ![doc.id].dateReturned = doc.dateReturned]

\* the save inserting the document as a new one
SaveDocInsert(store, doc) == Append(store, doc)

\* a save that writes rentalFee only where none is stored yet
SaveDocKeepsFee(store, doc) ==
  [store EXCEPT ![doc.id].dateReturned = doc.dateReturned,
                ![doc.id].rentalFee =
                  IF IsSet(store[doc.id].rentalFee) THEN store[doc.id].rentalFee
                  ELSE doc.rentalFee]

\* rental.save(): one update of the document that sets the paths
\* rental.return() modified
SaveDoc(store, doc) ==
  [store EXCEPT ![doc.id].dateReturned = doc.dateReturned,
                ![doc.id].rentalFee = doc.rentalFee]

\* ------------------------------------------------------------- middleware
\* res.status(status).send(body); res.send(rental) has status 200
Response(status, body) == [status |-> status, body |-> body, rental |-> None]
\* the rental sent as it was before rental.return()
SendStale(doc) ==
  [status |-> 200, body |-> "rental",
   rental |-> Some([doc EXCEPT !.dateReturned = None, !.rentalFee = None])]

Send(doc) == [status |-> 200, body |-> "rental", rental |-> Some(doc)]
CallNext == Response(0, "next")

\* auth letting a request without a token through
AuthNoTokenPasses(token) ==
  IF token # GoodToken /\ token # NoToken THEN Response(400, "Invalid token.")
  ELSE CallNext

\* auth answering 401 for a token that does not verify
AuthInvalid401(token) ==
  IF token # GoodToken THEN Response(401, "Access Denied. No token provided.")
  ELSE CallNext

\* middleware/auth.js
Auth(token) ==
  IF token = NoToken THEN Response(401, "Access Denied. No token provided.")
  ELSE IF token # GoodToken THEN Response(400, "Invalid token.")
  ELSE CallNext

\* Joi.string().required() in place of Joi.objectId().required()
IsObjectIdAnyString(s) == s # Missing

\* Joi.objectId()
IsObjectId(s) == s \in ObjectIds

\* a schema with movieId as its first key
validateReturnMovieFirst(body) ==
  IF ~IsObjectId(body.movieId) THEN Some("movieId")
  ELSE IF ~IsObjectId(body.customerId) THEN Some("customerId")
  ELSE None

\* validateReturn: Joi.validate stops at the first key of the schema that fails
validateReturn(body) ==
  IF ~IsObjectId(body.customerId) THEN Some("customerId")
  ELSE IF ~IsObjectId(body.movieId) THEN Some("movieId")
  ELSE None

\* middleware/validate.js
Validate(body) ==
  LET error == validateReturn(body)
  IN IF IsSet(error) THEN Response(400, Val(error)) ELSE CallNext

\* [validate(validateReturn), auth]
MiddlewareValidateFirst(token, body) ==
  IF Validate(body) # CallNext
    THEN [res |-> Validate(body), ran |-> <<"validate">>]
  ELSE IF Auth(token) # CallNext
    THEN [res |-> Auth(token), ran |-> <<"validate", "auth">>]
  ELSE [res |-> CallNext, ran |-> <<"validate", "auth">>]

\* [auth, validate(validateReturn)]: the response of the first middleware that
\* does not call next(), with the middleware that ran
Middleware(token, body) ==
  IF Auth(token) # CallNext
    THEN [res |-> Auth(token), ran |-> <<"auth">>]
  ELSE IF Validate(body) # CallNext
    THEN [res |-> Validate(body), ran |-> <<"auth", "validate">>]
  ELSE [res |-> CallNext, ran |-> <<"auth", "validate">>]

\* middleware/error.js, reached through express-async-errors
ErrorMiddleware == Response(500, "Something failed.")

\* rental.save() not awaited: the handler goes on whatever becomes of the save
AfterSaveNotAwaited(saved) == "update"

\* await rental.save(): a rejected save throws, a resolved one goes on to
\* Movie.update
AfterSave(saved) == IF saved THEN "update" ELSE "error"

\* the update without its $inc
IncStockNot(store, m) == store

\* the count written as the count read at the start plus one, not by $inc
IncStockAbsolute(store, m) ==
  IF m \in DOMAIN store
    THEN [store EXCEPT ![m].numberInStock = InitialMovies(rentals)[m].numberInStock + 1]
    ELSE store

\* Movie.update({ _id }, { $inc: { numberInStock: 1 } }): no document matches
\* a deleted movie and the update resolves all the same
IncStock(store, m) ==
  IF m \in DOMAIN store
    THEN [store EXCEPT ![m].numberInStock = store[m].numberInStock + 1]
    ELSE store

\* ------------------------------------------------------------------- Init
OpenRental(id, c, m, rate, out) ==
  [id |-> id, customer |-> c, movie |-> m, dailyRentalRate |-> rate,
   dateOut |-> out, dateReturned |-> None, rentalFee |-> None]

ClosedRental(id, c, m, rate, out, ret) ==
  Return(OpenRental(id, c, m, rate, out), ret, ret)

\* the rentals collection in insertion order: two customers with the same
\* movie out (one for a week, one since the last tick), two customers with
\* different movies out, and a customer who rents again a movie they returned
InitialStores ==
  { <<OpenRental(1, "c1", "m1", 2, 0 - 7 * TicksPerDay),
      OpenRental(2, "c2", "m1", 3, 0 - 1)>>,
    <<OpenRental(1, "c1", "m1", 2, 0),
      OpenRental(2, "c2", "m2", 3, 0 - 1)>>,
    <<ClosedRental(1, "c1", "m1", 2, 0 - 7 * TicksPerDay, 0 - 5 * TicksPerDay),
      OpenRental(2, "c1", "m1", 3, 0)>> }

\* ------------------------------------------------------------------ genres
MaxGenres == 3

\* the _id values new documents get, in the order they are created
GenreIdSeq == <<"g1", "g2", "g3", "g4", "g5", "g6">>
InvalidId == "1"
\* mongoose.Types.ObjectId.isValid
GenreIdIsValid(s) == \E k \in DOMAIN GenreIdSeq : GenreIdSeq[k] = s
GenreParams == {GenreIdSeq[1], GenreIdSeq[6], InvalidId}

\* new Array(52).join('a'): 51 characters
LongName == "aaaaaaaaaaaaaaaaaaaaaaaaaaaaaaaaaaaaaaaaaaaaaaaaaaa"
\* names in the order sort('name') gives them
NameOrder == <<"genre1", "genre2", "genre3", LongName>>
GenreNames == {"", "1234", "genre1", "genre2", "genre3", LongName}
GenreBodies == {[name |-> None]} \cup {[name |-> Some(n)] : n \in GenreNames}

\* validateGenre: name: Joi.string().min(5).required()
validateGenre(body) ==
  IF ~IsSet(body.name) THEN Some("\"name\" is required")
  ELSE IF Len(Val(body.name)) = 0
    THEN Some("\"name\" is not allowed to be empty")
  ELSE IF Len(Val(body.name)) < 5
    THEN Some("\"name\" length must be at least 5 characters long")
  ELSE None

\* genreSchema: name required, minlength 5, maxlength 50, checked by save()
ValidGenre(doc) == Len(doc.name) >= 5 /\ Len(doc.name) <= 50

\* new Genre({ name: req.body.name })
NewGenre(store, name) == [id |-> GenreIdSeq[Len(store) + 1], name |-> name]

\* a save that replaces the collection by the document
InsertGenreOnly(store, doc) == <<doc>>

\* genre.save() of a new document
InsertGenre(store, doc) == Append(store, doc)

\* Genre.findById(id): a CastError for an id that is no object id, else the
\* document with that _id or null
FindById(store, id) ==
  IF ~GenreIdIsValid(id) THEN [error |-> TRUE, doc |-> None]
  ELSE IF \E k \in DOMAIN store : store[k].id = id
    THEN [error |-> FALSE,
          doc |-> Some(store[CHOOSE k \in DOMAIN store : store[k].id = id])]
  ELSE [error |-> FALSE, doc |-> None]

NameRank(n) == CHOOSE k \in DOMAIN NameOrder : NameOrder[k] = n

\* Genre.find().sort('name'): every stored genre, ordered by name; documents
\* of the same name come in any order
FindSortedByName(store) ==
  { [k \in DOMAIN store |-> store[p[k]]] : p \in
      { q \in Permutations(DOMAIN store) :
          \A i, j \in DOMAIN store :
            i < j => NameRank(store[q[i]].name) <= NameRank(store[q[j]].name) } }

\* the genres the integration test inserts
GenreFixtures ==
  { <<>>, <<[id |-> GenreIdSeq[1], name |-> "genre1"],
            [id |-> GenreIdSeq[2], name |-> "genre2"]>> }

\* the last request to /api/genres and its response
GenreRequest(op, token, param, body, ok, before) ==
  [op |-> op, token |-> token, param |-> param, name |-> body.name, ok |-> ok,
   before |-> before, status |-> 0, body |-> "", docs |-> <<>>, ran |-> <<>>]
NoGenreRequest == GenreRequest("none", NoToken, "", [name |-> None], TRUE, <<>>)
GenreResponse(req, status, body, docs, ran) ==
  [req EXCEPT !.status = status, !.body = body, !.docs = docs, !.ran = ran]

NoLocals == [customerId |-> Missing, movieId |-> Missing, start |-> 0, doc |-> None]
NoResponse == Response(0, "pending")

\* req.body of any shape: each id a valid object id, missing or malformed
AnyBodies == [customerId : ObjectIds \cup {Missing, Malformed},
              movieId : ObjectIds \cup {Missing, Malformed}]

\* the last request put through the middleware of router.post('/') and what
\* the middleware answered
NoSubmission ==
  [token |-> NoToken, body |-> [customerId |-> Missing, movieId |-> Missing],
   res |-> NoResponse, ran |-> <<>>]

Init ==
  /\ now = 0
  /\ rentals \in InitialStores
  /\ movies = InitialMovies(rentals)
  /\ pc = [i \in Calls |-> "idle"]
  /\ tok = [i \in Calls |-> NoToken]
  /\ loc = [i \in Calls |-> NoLocals]
  /\ res = [i \in Calls |-> NoResponse]
  /\ log = [i \in Calls |-> <<>>]
  /\ puts = <<>>
  /\ genres = <<>>
  /\ greq = NoGenreRequest
  /\ vreq = NoSubmission

\* ---------------------------------------------------------------- actions
\* the response is sent and the invocation is over; req.body is kept as the
\* record of what the call was for
Finish(i, response, events) ==
  /\ pc' = [pc EXCEPT ![i] = "done"]
  /\ res' = [res EXCEPT ![i] = response]
  /\ log' = [log EXCEPT ![i] = log[i] \o events]
  /\ loc' = [loc EXCEPT ![i] = [NoLocals EXCEPT
                !.customerId = loc[i].customerId,
                !.movieId = loc[i].movieId]]

\* router.post('/', [auth, validate(validateReturn)], ...) up to
\* `await Rental.lookup(req.body.customerId, req.body.movieId)`
Request(i, token, body) ==
  /\ pc[i] = "idle"
  /\ \A j \in Calls : j < i => pc[j] # "idle"
  /\ tok' = [tok EXCEPT ![i] = token]
  /\ UNCHANGED <<now, rentals, movies, puts, genres, greq, vreq>>
  /\ LET m == Middleware(token, body)
     IN IF m.res # CallNext
          THEN Finish(i, m.res, m.ran)
          ELSE /\ pc' = [pc EXCEPT ![i] = "lookup"]
               /\ loc' = [loc EXCEPT ![i] = [NoLocals EXCEPT
                             !.customerId = body.customerId,
                             !.movieId = body.movieId,
                             !.start = now]]
               /\ log' = [log EXCEPT ![i] = m.ran \o <<"lookup">>]
               /\ UNCHANGED res

\* the handler with rental.return() and the save ahead of the dateReturned check
LookupSavesBeforeCheck(i) ==
  /\ pc[i] = "lookup"
  /\ UNCHANGED <<now, movies, tok, puts, genres, greq, vreq>>
  /\ LET r == RentalLookup(rentals, loc[i].customerId, loc[i].movieId)
     IN IF r = 0
          THEN /\ Finish(i, Response(404, "Rental not found."), <<"send">>)
               /\ UNCHANGED rentals
          ELSE /\ rentals' = [rentals EXCEPT ![r] = Return(rentals[r], now, now)]
               /\ Finish(i, Response(400, "Rental already processed."), <<"send">>)

\* the lookup taking the rental for its call: a rental another call has read
\* as open and not yet saved counts as processed
LookupExclusive(i) ==
  /\ pc[i] = "lookup"
  /\ UNCHANGED <<now, rentals, movies, tok, puts, genres, greq, vreq>>
  /\ LET r == RentalLookup(rentals, loc[i].customerId, loc[i].movieId)
     IN IF r = 0
          THEN Finish(i, Response(404, "Rental not found."), <<"send">>)
        ELSE IF \/ AlreadyProcessed(rentals[r])
                \/ \E j \in Calls \ {i} : pc[j] = "save" /\ Val(loc[j].doc).id = r
          THEN Finish(i, Response(400, "Rental already processed."), <<"send">>)
        ELSE /\ pc' = [pc EXCEPT ![i] = "save"]
             /\ loc' = [loc EXCEPT ![i] = [loc[i] EXCEPT
                           !.doc = Some(Return(rentals[r], now, now))]]
             /\ log' = [log EXCEPT ![i] = log[i] \o <<"return", "save">>]
             /\ UNCHANGED res

\* the lookup resolves (or rejects) and the handler runs on to
\* `await rental.save()`; rental.return() reads the clock twice
Lookup(i) ==
  /\ pc[i] = "lookup"
  /\ UNCHANGED <<rentals, movies, tok, puts, genres, greq, vreq>>
  /\ \E ok \in BOOLEAN :
       LET r == RentalLookup(rentals, loc[i].customerId, loc[i].movieId)
       IN IF ~ok
            THEN /\ Finish(i, ErrorMiddleware, <<"lookup failed", "error">>)
                 /\ UNCHANGED now
          ELSE IF r = 0
            THEN /\ Finish(i, Response(404, "Rental not found."), <<"send">>)
                 /\ UNCHANGED now
          ELSE IF AlreadyProcessed(rentals[r])
            THEN /\ Finish(i, Response(400, "Rental already processed."), <<"send">>)
                 /\ UNCHANGED now
          ELSE \E t2 \in {now, now + 1} :
                 /\ t2 <= MaxTime
                 /\ now' = t2
                 /\ pc' = [pc EXCEPT ![i] = "save"]
                 /\ loc' = [loc EXCEPT ![i] = [NoLocals EXCEPT
                               !.customerId = loc[i].customerId,
                               !.movieId = loc[i].movieId,
                               !.doc = Some(Return(rentals[r], now, t2))]]
                 /\ log' = [log EXCEPT ![i] = log[i] \o <<"return", "save">>]
                 /\ UNCHANGED res

\* the save resolves (or rejects: a store error, or the schema's validation)
\* and the handler runs on to `await Movie.update(..)`
Save(i) ==
  /\ pc[i] = "save"
  /\ UNCHANGED <<now, movies, tok, puts, genres, greq, vreq>>
  /\ \E ok \in BOOLEAN :
       LET doc == Val(loc[i].doc)
           saved == ok /\ ValidRental(doc)
       IN /\ rentals' = IF saved THEN SaveDoc(rentals, doc) ELSE rentals
          /\ IF AfterSave(saved) = "update"
               THEN /\ pc' = [pc EXCEPT ![i] = "update"]
                    /\ log' = [log EXCEPT ![i] = log[i] \o
                                 <<IF saved THEN "saved" ELSE "save failed", "update">>]
                    /\ UNCHANGED <<loc, res>>
               ELSE Finish(i, ErrorMiddleware,
                           <<IF saved THEN "saved" ELSE "save failed", "error">>)

\* a handler that catches the rejected update and sends nothing
UpdateSwallowsError(i) ==
  /\ pc[i] = "update"
  /\ UNCHANGED <<now, rentals, tok, puts, genres, greq, vreq>>
  /\ \E ok \in BOOLEAN :
       IF ok
         THEN /\ movies' = IncStock(movies, Val(loc[i].doc).movie)
              /\ Finish(i, Send(Val(loc[i].doc)), <<"updated", "send">>)
         ELSE /\ movies' = movies
              /\ pc' = [pc EXCEPT ![i] = "hung"]
              /\ log' = [log EXCEPT ![i] = log[i] \o <<"update failed">>]
              /\ UNCHANGED <<loc, res>>

\* a handler that undoes its rental write when the update is rejected
UpdateRollsBack(i) ==
  /\ pc[i] = "update"
  /\ UNCHANGED <<now, tok, puts, genres, greq, vreq>>
  /\ \E ok \in BOOLEAN :
       IF ok
         THEN /\ movies' = IncStock(movies, Val(loc[i].doc).movie)
              /\ rentals' = rentals
              /\ Finish(i, Send(Val(loc[i].doc)), <<"updated", "send">>)
         ELSE /\ movies' = movies
              /\ rentals' = [rentals EXCEPT ![Val(loc[i].doc).id].dateReturned = None,
                                            ![Val(loc[i].doc).id].rentalFee = None]
              /\ Finish(i, ErrorMiddleware, <<"update failed", "error">>)

\* `Movie.update(..)` without await: the response is sent while the update
\* is still on its way
UpdateNotAwaited(i) ==
  /\ pc[i] = "update"
  /\ UNCHANGED <<now, rentals, movies, tok, puts, genres, greq, vreq>>
  /\ Finish(i, Send(Val(loc[i].doc)), <<"send">>)

\* the update resolves (or rejects) and the handler ends with res.send(rental)
Update(i) ==
  /\ pc[i] = "update"
  /\ UNCHANGED <<now, rentals, tok, puts, genres, greq, vreq>>
  /\ \E ok \in BOOLEAN :
       IF ok
         THEN /\ movies' = IncStock(movies, Val(loc[i].doc).movie)
              /\ Finish(i, Send(Val(loc[i].doc)), <<"updated", "send">>)
         ELSE /\ movies' = movies
              /\ Finish(i, ErrorMiddleware, <<"update failed", "error">>)

\* router.delete('/:id') of routes/movies.js: Movie.findByIdAndRemove
DeleteMovie(m) ==
  /\ m \in DOMAIN movies
  /\ movies' = [n \in DOMAIN movies \ {m} |-> movies[n]]
  /\ UNCHANGED <<now, rentals, pc, tok, loc, res, log, puts, genres, greq, vreq>>

\* the server's clock
Tick ==
  /\ now < MaxTime
  /\ now' = now + 1
  /\ UNCHANGED <<rentals, movies, pc, tok, loc, res, log, puts, genres, greq, vreq>>

Next ==
  \/ \E i \in Calls, token \in Tokens, body \in Bodies : Request(i, token, body)
  \/ \E i \in Calls : Lookup(i)
  \/ \E i \in Calls : Save(i)
  \/ \E i \in Calls : Update(i)
  \/ \E m \in MovieIds : DeleteMovie(m)
  \/ Tick

Spec == Init /\ [][Next]_vars

\* every store call of a call in flight completes or fails: the driver resolves
\* or rejects each promise, and Node resumes the handler that awaits it
FairSpec ==
  /\ Spec
  /\ \A i \in Calls : WF_vars(Lookup(i)) /\ WF_vars(Save(i)) /\ WF_vars(Update(i))

\* ------------------------------------------- rentals dated in the future
\* rentals whose dateOut is later than the server's clock (dateOut is any
\* Date the checkout stored): one less than a day ahead, one a day or more
\* ahead for as long as the clock runs
FutureStores ==
  { <<OpenRental(1, "c1", "m1", 2, MaxTime + 1),
      OpenRental(2, "c2", "m1", 3, MaxTime + TicksPerDay)>> }

FutureInit ==
  /\ now = 0
  /\ rentals \in FutureStores
  /\ movies = InitialMovies(rentals)
  /\ pc = [i \in Calls |-> "idle"]
  /\ tok = [i \in Calls |-> NoToken]
  /\ loc = [i \in Calls |-> NoLocals]
  /\ res = [i \in Calls |-> NoResponse]
  /\ log = [i \in Calls |-> <<>>]
  /\ puts = <<>>
  /\ genres = <<>>
  /\ greq = NoGenreRequest
  /\ vreq = NoSubmission

FutureSpec == FutureInit /\ [][Next]_vars

\* ---------------------------------------------------- the process exits
\* calls between their first await and their response
InFlight == {i \in Calls : pc[i] \in {"lookup", "save", "update"}}

\* an uncaught exception or unhandled rejection ends the process
\* (startup/logging.js): the handlers in flight never resume and their
\* requests get no response. A save that reached the store before the exit is
\* the Save step followed by this one; of the updates already issued, each
\* has reached the store or has not.
Crash ==
  /\ InFlight # {}
  /\ \E landed \in SUBSET {i \in Calls : pc[i] = "update"} :
       /\ movies' = [m \in DOMAIN movies |->
                      [movies[m] EXCEPT !.numberInStock =
                         @ + Cardinality({i \in landed : Val(loc[i].doc).movie = m})]]
       /\ log' = [i \in Calls |->
                   IF i \in landed THEN log[i] \o <<"updated", "crash">>
                   ELSE IF i \in InFlight THEN Append(log[i], "crash")
                   ELSE log[i]]
  /\ pc' = [i \in Calls |-> IF i \in InFlight THEN "crashed" ELSE pc[i]]
  /\ loc' = [i \in Calls |-> IF i \in InFlight
                               THEN [NoLocals EXCEPT !.customerId = loc[i].customerId,
                                                     !.movieId = loc[i].movieId]
                               ELSE loc[i]]
  /\ UNCHANGED <<now, rentals, tok, res, puts, genres, greq, vreq>>

CrashNext ==
  \/ Next
  \/ Crash

CrashSpec == Init /\ [][CrashNext]_vars

\* ------------------------------------------------- PUT /api/movies/:id
\* req.body of the movie update: a new stock count, a new price, or both
PutBodies ==
  { [numberInStock |-> Some(12), dailyRentalRate |-> None],
    [numberInStock |-> None, dailyRentalRate |-> Some(4)],
    [numberInStock |-> Some(12), dailyRentalRate |-> Some(4)] }

NoPaths == [numberInStock |-> None, dailyRentalRate |-> None]

\* `if (req.body.x) movie.x = req.body.x`: the paths of the document read by
\* findById that the handler's assignments modify
ModifiedPaths(movie, body) ==
  [numberInStock |-> IF IsSet(body.numberInStock)
                          /\ Val(body.numberInStock) # movie.numberInStock
                       THEN body.numberInStock ELSE None,
   dailyRentalRate |-> IF IsSet(body.dailyRentalRate)
                            /\ Val(body.dailyRentalRate) # movie.dailyRentalRate
                         THEN body.dailyRentalRate ELSE None]

\* movie.save(): the modified paths are written with their absolute values;
\* a document that was removed meanwhile is not written
SetPaths(store, m, set) ==
  IF m \notin DOMAIN store THEN store
  ELSE [store EXCEPT
          ![m].numberInStock = IF IsSet(set.numberInStock)
                                 THEN Val(set.numberInStock) ELSE @,
          ![m].dailyRentalRate = IF IsSet(set.dailyRentalRate)
                                   THEN Val(set.dailyRentalRate) ELSE @]

\* router.put('/:id'): findById resolves, the handler assigns the fields of
\* the body, calls movie.save() without awaiting it and sends the movie; read
\* is the numberInStock of the document findById returned
PutMovie(m, body) ==
  /\ Len(puts) < MaxPuts
  /\ puts' = Append(puts,
        IF m \in DOMAIN movies
          THEN [movie |-> m, read |-> movies[m].numberInStock,
                set |-> ModifiedPaths(movies[m], body), state |-> "saving"]
          ELSE [movie |-> m, read |-> 0, set |-> NoPaths, state |-> "not found"])
  /\ UNCHANGED <<now, rentals, movies, pc, tok, loc, res, log, genres, greq, vreq>>

\* the write of a movie.save() reaches the movies collection
PutSave(k) ==
  /\ k \in DOMAIN puts
  /\ puts[k].state = "saving"
  /\ movies' = SetPaths(movies, puts[k].movie, puts[k].set)
  /\ puts' = [puts EXCEPT ![k].state = "saved"]
  /\ UNCHANGED <<now, rentals, pc, tok, loc, res, log, genres, greq, vreq>>

MovieNext ==
  \/ Next
  \/ \E m \in MovieIds, body \in PutBodies : PutMovie(m, body)
  \/ \E k \in 1..MaxPuts : PutSave(k)

MovieSpec == Init /\ [][MovieNext]_vars

\* ------------------------------------------------------------ /api/genres
GenreInit ==
  /\ now = 0
  /\ rentals \in InitialStores
  /\ movies = InitialMovies(rentals)
  /\ pc = [i \in Calls |-> "idle"]
  /\ tok = [i \in Calls |-> NoToken]
  /\ loc = [i \in Calls |-> NoLocals]
  /\ res = [i \in Calls |-> NoResponse]
  /\ log = [i \in Calls |-> <<>>]
  /\ puts = <<>>
  /\ genres \in GenreFixtures
  /\ greq = NoGenreRequest
  /\ vreq = NoSubmission

\* router.get('/'); ok: the query resolves
GetGenres ==
  /\ UNCHANGED <<now, rentals, movies, pc, tok, loc, res, log, puts, genres, vreq>>
  /\ \E ok \in BOOLEAN, found \in FindSortedByName(genres) :
       LET req == GenreRequest("GET /", NoToken, "", [name |-> None], ok, genres)
       IN greq' = IF ok
            THEN GenreResponse(req, 200, "genres", found, <<"find">>)
            ELSE GenreResponse(req, ErrorMiddleware.status, ErrorMiddleware.body,
                               <<>>, <<"find", "error">>)

\* router.get('/:id')
GetGenre(id) ==
  /\ UNCHANGED <<now, rentals, movies, pc, tok, loc, res, log, puts, genres, vreq>>
  /\ \E ok \in BOOLEAN :
       LET req == GenreRequest("GET /:id", NoToken, id, [name |-> None], ok, genres)
           found == FindById(genres, id)
       IN greq' =
            IF ~ok \/ found.error
              THEN GenreResponse(req, ErrorMiddleware.status, ErrorMiddleware.body,
                                 <<>>, <<"findById", "error">>)
            ELSE IF ~IsSet(found.doc)
              THEN GenreResponse(req, 404, "The genre with given id was not found!",
                                 <<>>, <<"findById">>)
            ELSE GenreResponse(req, 200, "genre", <<Val(found.doc)>>, <<"findById">>)

\* router.post('/', auth, ...)
PostGenre(token, body) ==
  /\ Len(genres) < MaxGenres
  /\ UNCHANGED <<now, rentals, movies, pc, tok, loc, res, log, puts, vreq>>
  /\ \E ok \in BOOLEAN :
       LET req == GenreRequest("POST /", token, "", body, ok, genres)
           error == validateGenre(body)
           genre == NewGenre(genres, Val(body.name))
       IN IF Auth(token) # CallNext
            THEN /\ greq' = GenreResponse(req, Auth(token).status, Auth(token).body,
                                          <<>>, <<"auth">>)
                 /\ UNCHANGED genres
          ELSE IF IsSet(error)
            THEN /\ greq' = GenreResponse(req, 400, Val(error), <<>>,
                                          <<"auth", "validate">>)
                 /\ UNCHANGED genres
          ELSE IF ok /\ ValidGenre(genre)
            THEN /\ genres' = InsertGenre(genres, genre)
                 /\ greq' = GenreResponse(req, 200, "genre", <<genre>>,
                                          <<"auth", "validate", "save">>)
          ELSE /\ greq' = GenreResponse(req, ErrorMiddleware.status,
                                        ErrorMiddleware.body, <<>>,
                                        <<"auth", "validate", "save", "error">>)
               /\ UNCHANGED genres

GenreNext ==
  \/ GetGenres
  \/ \E id \in GenreParams : GetGenre(id)
  \/ \E token \in Tokens, body \in GenreBodies : PostGenre(token, body)

GenreSpec == GenreInit /\ [][GenreNext]_vars

\* ------------------------------------------- [auth, validate(validateReturn)]
\* one request goes through the middleware array of router.post('/'); the
\* handler it reaches when both call next() is Request, Lookup, Save, Update
Submit(token, body) ==
  /\ vreq' = [token |-> token, body |-> body,
              res |-> Middleware(token, body).res,
              ran |-> Middleware(token, body).ran]
  /\ UNCHANGED <<now, rentals, movies, pc, tok, loc, res, log, puts, genres, greq>>

SubmitNext == \E token \in Tokens, body \in AnyBodies : Submit(token, body)

SubmitSpec == Init /\ [][SubmitNext]_vars

\* ----------------------------------------------------------------- claims
AlreadyProcessedResponse == Response(400, "Rental already processed.")
NotFoundResponse == Response(404, "Rental not found.")
Succeeded(i) == res[i].status = 200
Closed(r) == IsSet(rentals[r].dateReturned)
\* call i takes its step from pc value `from`
Steps(i, from) == pc[i] = from /\ pc'[i] # from

\* C1: once a call has succeeded for a (customerId, movieId) pair, every call
\* for the same pair whose lookup resolves afterwards (so every later
\* sequential call) is answered 400 "Rental already processed.", and its step
\* changes neither a rental (dateReturned, rentalFee) nor a movie's stock.
C1_SecondReturnRejected ==
  [][\A j \in Calls :
       ( /\ Steps(j, "lookup")
         /\ res'[j] # ErrorMiddleware
         /\ \E i \in Calls :
              /\ Succeeded(i)
              /\ Val(res[i].rental).customer = loc[j].customerId
              /\ Val(res[i].rental).movie = loc[j].movieId )
       => /\ res'[j] = AlreadyProcessedResponse
          /\ pc'[j] = "done"
          /\ rentals' = rentals
          /\ movies' = movies]_vars

\* one call has succeeded, the only closed rental is the one it closed, and
\* another call was answered "Rental already processed."
C1_Witness ==
  \E i, j \in Calls :
    /\ Succeeded(i)
    /\ res[j] = AlreadyProcessedResponse
    /\ Cardinality({r \in DOMAIN rentals : Closed(r)}) = 1
    /\ \A m \in DOMAIN movies :
         movies[m].numberInStock <= InitialMovies(rentals)[m].numberInStock + 1

\* C2 as stated: once a rental's dateReturned is persisted, no call in any
\* interleaving saves that rental again.
C2_ClosedNeverSavedAgain ==
  [][\A i \in Calls :
       (pc[i] = "save" /\ pc'[i] = "update")
       => ~Closed(Val(loc[i].doc).id)]_vars

\* C2 amended: a call whose lookup resolves to a rental whose dateReturned is
\* already persisted ends there and writes no rental; only a call that read
\* the rental as open before that save can still save it.
C2_ClosedAtLookupNeverSaved ==
  [][\A i \in Calls :
       LET r == RentalLookup(rentals, loc[i].customerId, loc[i].movieId)
       IN ( /\ Steps(i, "lookup")
            /\ r # 0
            /\ Closed(r) )
          => /\ pc'[i] = "done"
             /\ res'[i] \in {AlreadyProcessedResponse, ErrorMiddleware}
             /\ rentals' = rentals]_vars

\* a call was rejected for a rental that another call, still running, closed
C2_Witness ==
  \E i, j \in Calls :
    /\ res[i] = AlreadyProcessedResponse
    /\ pc[j] = "update"
    /\ Closed(Val(loc[j].doc).id)
    /\ \A r \in DOMAIN rentals : Closed(r) => r = Val(loc[j].doc).id

\* C3 as stated: every successful call has increased the stock of its
\* rental's movie by exactly 1, whatever the movies collection holds.
C3_SuccessIncrementsStock ==
  [][\A i \in Calls :
       (~Succeeded(i) /\ res'[i].status = 200)
       => LET m == Val(res'[i].rental).movie
          IN /\ m \in DOMAIN movies
             /\ m \in DOMAIN movies'
             /\ movies'[m].numberInStock = movies[m].numberInStock + 1]_vars

\* C3 amended: a call succeeds only in the step of its stock update; when the
\* movie is still in the movies collection that step adds exactly 1 to its
\* numberInStock and changes no other movie; when the movie has been deleted
\* the call succeeds all the same and no stock changes.
C3_SuccessIncrementsStockIfPresent ==
  [][\A i \in Calls :
       (~Succeeded(i) /\ res'[i].status = 200)
       => LET m == Val(res'[i].rental).movie
          IN /\ pc[i] = "update"
             /\ m \in DOMAIN movies =>
                  movies' = [movies EXCEPT ![m].numberInStock = movies[m].numberInStock + 1]
             /\ m \notin DOMAIN movies => movies' = movies]_vars

\* a call has succeeded and its movie's stock is one above the initial stock
C3_Witness ==
  \E i \in Calls :
    /\ Succeeded(i)
    /\ LET m == Val(res[i].rental).movie
       IN /\ m \in DOMAIN movies
          /\ movies[m].numberInStock = InitialMovies(rentals)[m].numberInStock + 1

\* C4: the fee a call computes, persists and returns is the whole days from
\* dateOut to the time of the call's moment() reading, rounded down, times the
\* rental's dailyRentalRate: 0 for less than a day, 14 for exactly 7 days at
\* rate 2.
C4_FeeIsWholeDaysTimesRate ==
  [][\A i \in Calls :
       /\ (pc[i] = "lookup" /\ pc'[i] = "save") =>
            LET doc == Val(loc'[i].doc)
                elapsed == now' - doc.dateOut
            IN /\ elapsed >= 0
               /\ doc.rentalFee = Some((elapsed \div TicksPerDay) * doc.dailyRentalRate)
               /\ elapsed < TicksPerDay => doc.rentalFee = Some(0)
               /\ (elapsed = 7 * TicksPerDay /\ doc.dailyRentalRate = 2) =>
                    doc.rentalFee = Some(14)
       /\ (pc[i] = "save" /\ pc'[i] = "update") =>
            rentals'[Val(loc[i].doc).id].rentalFee = Val(loc[i].doc).rentalFee
       /\ (~Succeeded(i) /\ res'[i].status = 200) =>
            Val(res'[i].rental).rentalFee = Val(loc[i].doc).rentalFee]_vars

\* two calls have succeeded, one with the fee 14 of a week at rate 2, one with
\* the fee 0 of less than a day, and both fees are the persisted ones
C4_Witness ==
  \E i, j \in Calls :
    /\ Succeeded(i) /\ Succeeded(j)
    /\ Val(res[i].rental).rentalFee = Some(14)
    /\ Val(res[j].rental).rentalFee = Some(0)
    /\ rentals[Val(res[i].rental).id].rentalFee = Some(14)
    /\ rentals[Val(res[j].rental).id].rentalFee = Some(0)

\* C5: a call whose lookup resolves to an open rental goes on to save it; the
\* dateReturned it saves is the time it read, not before the call started and
\* not after it completed; from its save on the rental is closed for good.
C5_OpenRentalIsClosedAtCallTime ==
  [][/\ \A i \in Calls :
          LET r == RentalLookup(rentals, loc[i].customerId, loc[i].movieId)
          IN /\ (Steps(i, "lookup") /\ r # 0 /\ ~Closed(r) /\ res'[i] # ErrorMiddleware) =>
                  /\ pc'[i] = "save"
                  /\ Val(loc'[i].doc).id = r
                  /\ Val(loc'[i].doc).dateReturned = Some(now)
                  /\ loc[i].start <= now
             /\ (pc[i] = "save" /\ pc'[i] = "update") =>
                  /\ IsSet(Val(loc[i].doc).dateReturned)
                  /\ rentals'[Val(loc[i].doc).id].dateReturned = Val(loc[i].doc).dateReturned
             /\ (~Succeeded(i) /\ res'[i].status = 200) =>
                  /\ Val(res'[i].rental).dateReturned = Val(loc[i].doc).dateReturned
                  /\ Val(Val(loc[i].doc).dateReturned) <= now'
                  /\ IsSet(rentals'[Val(loc[i].doc).id].dateReturned)
     /\ \A r \in DOMAIN rentals : Closed(r) => IsSet(rentals'[r].dateReturned)]_vars

\* a call has succeeded after the clock moved and the rental holds the time
\* the call read
C5_Witness ==
  \E i \in Calls :
    /\ Succeeded(i)
    /\ Val(res[i].rental).dateReturned = Some(MaxTime)
    /\ rentals[Val(res[i].rental).id].dateReturned = Some(MaxTime)

Has(seq, e) == \E k \in DOMAIN seq : seq[k] = e

\* C6: in every call the stock update is issued only right after the save has
\* resolved; a call whose save failed issues no update and ends with the
\* error response, so every movie's stock is its initial stock plus one per
\* successful call for that movie.
C6_UpdateOnlyAfterSaved ==
  /\ \A i \in Calls :
       /\ \A k \in DOMAIN log[i] :
            log[i][k] \in {"update", "updated"} =>
              \E h \in 1..(k - 1) : log[i][h] = "saved"
       /\ Has(log[i], "save failed") =>
            /\ ~Has(log[i], "update")
            /\ pc[i] = "done"
            /\ res[i] = ErrorMiddleware
  /\ \A m \in DOMAIN movies :
       movies[m].numberInStock =
         InitialMovies(rentals)[m].numberInStock
           + Cardinality({i \in Calls : Succeeded(i) /\ Val(res[i].rental).movie = m})

\* one call's save failed and left the rental open and the stock as it was,
\* another call's save and update went through
C6_Witness ==
  \E i, j \in Calls :
    /\ Has(log[i], "save failed")
    /\ Has(log[j], "updated")
    /\ \E r \in DOMAIN rentals : ~Closed(r)

MiddlewareFailures ==
  {Response(401, "Access Denied. No token provided."), Response(400, "Invalid token."),
   Response(400, "customerId"), Response(400, "movieId")}

\* C7: no step of a call that ends with Unauthenticated, InvalidInput,
\* NotFound or AlreadyProcessed changes a rental or a movie's stock: such a
\* call ends in its request step or in its lookup step, and neither writes.
C7_FailedCallChangesNothing ==
  [][\A i \in Calls :
       /\ Steps(i, "idle") => (rentals' = rentals /\ movies' = movies)
       /\ (res[i] = NoResponse /\
           res'[i] \in MiddlewareFailures \cup {NotFoundResponse, AlreadyProcessedResponse}) =>
            /\ pc[i] \in {"idle", "lookup"}
            /\ rentals' = rentals
            /\ movies' = movies]_vars

\* one call ended NotFound and one AlreadyProcessed
C7_Witness ==
  \E i, j \in Calls :
    /\ res[i] = NotFoundResponse
    /\ res[j] = AlreadyProcessedResponse

\* C8: a request without a token, whatever body it was sent with, is
\* answered 401 by auth; validate does not run and no lookup is issued.
C8_NoTokenIs401BeforeAll ==
  \A i \in Calls :
    (pc[i] # "idle" /\ tok[i] = NoToken) =>
      /\ res[i] = Response(401, "Access Denied. No token provided.")
      /\ log[i] = <<"auth">>
      /\ pc[i] = "done"

\* a call without a token was answered 401 with auth alone having run
C8_Witness ==
  \E i \in Calls : tok[i] = NoToken /\ res[i].status = 401 /\ log[i] = <<"auth">>

\* C9 as stated: a token that does not verify is answered 401, like a missing
\* token.
C9_InvalidTokenIs401 ==
  \A i \in Calls :
    (pc[i] # "idle" /\ tok[i] = BadToken) => res[i].status = 401

\* C9 amended: a token that does not verify is answered 400 "Invalid token."
\* by auth, where a missing token is answered 401; validate and the handler
\* do not run.
C9_InvalidTokenIs400 ==
  \A i \in Calls :
    (pc[i] # "idle" /\ tok[i] = BadToken) =>
      /\ res[i] = Response(400, "Invalid token.")
      /\ log[i] = <<"auth">>
      /\ pc[i] = "done"

\* a call with a token that does not verify was answered 400 "Invalid token."
C9_Witness ==
  \E i \in Calls :
    tok[i] = BadToken /\ res[i] = Response(400, "Invalid token.") /\ log[i] = <<"auth">>

\* C10: an authenticated request whose customerId or movieId is missing or
\* malformed is answered 400 by validate; no lookup is issued and the call
\* touches neither collection.
C10_InvalidIdIs400BeforeLookup ==
  [][\A i \in Calls :
       Steps(i, "idle") =>
         \A b \in Bodies :
           ( /\ b.customerId \in {Missing, Malformed} \/ b.movieId \in {Missing, Malformed}
             /\ Request(i, GoodToken, b) )
           => /\ res'[i].status = 400
              /\ res'[i].body \in {"customerId", "movieId"}
              /\ log'[i] = <<"auth", "validate">>
              /\ pc'[i] = "done"
              /\ rentals' = rentals
              /\ movies' = movies]_vars

\* one call was rejected for its customerId and one for its movieId
C10_Witness ==
  \E i, j \in Calls :
    /\ res[i] = Response(400, "customerId")
    /\ res[j] = Response(400, "movieId")
    /\ log[i] = <<"auth", "validate">>
    /\ log[j] = <<"auth", "validate">>

\* C11: when the lookup of an authenticated call with valid ids resolves and
\* the rentals collection holds no rental of its (customerId, movieId) pair,
\* the call ends there with 404 "Rental not found.": it is answered neither
\* "Rental already processed." nor success, it goes on to no save and it
\* changes neither collection.
C11_NoRentalIsNotFound ==
  [][\A i \in Calls :
       ( /\ Steps(i, "lookup")
         /\ res'[i] # ErrorMiddleware
         /\ \A r \in DOMAIN rentals :
              ~(rentals[r].customer = loc[i].customerId /\ rentals[r].movie = loc[i].movieId) )
       => /\ pc'[i] = "done"
          /\ res'[i] = NotFoundResponse
          /\ res'[i] # AlreadyProcessedResponse
          /\ res'[i].status # 200
          /\ rentals' = rentals
          /\ movies' = movies]_vars

\* a call that passed auth and validate was answered 404 after its lookup,
\* while its customer has another movie out
C11_Witness ==
  \E i \in Calls :
    /\ res[i] = NotFoundResponse
    /\ log[i] = <<"auth", "validate", "lookup", "send">>
    /\ \E r \in DOMAIN rentals : rentals[r].customer = "c1" /\ ~Closed(r)

\* C12: when the rentals collection holds several rentals of a call's
\* (customerId, movieId) pair, exactly one of them open and the others closed,
\* the call's lookup resolves to the open one and the call goes on to save it
\* closed; it is not answered "Rental already processed.".
C12_LookupResolvesToOpenRental ==
  [][\A i \in Calls :
       LET pair == {r \in DOMAIN rentals :
                      rentals[r].customer = loc[i].customerId /\ rentals[r].movie = loc[i].movieId}
           open == {r \in pair : ~Closed(r)}
       IN ( /\ Steps(i, "lookup")
            /\ res'[i] # ErrorMiddleware
            /\ Cardinality(pair) > 1
            /\ Cardinality(open) = 1 )
          => /\ res'[i] # AlreadyProcessedResponse
             /\ pc'[i] = "save"
             /\ Val(loc'[i].doc).id \in open]_vars

\* C13: the body of a success response is the rental record the call
\* updated: it has dateOut, dateReturned, rentalFee, customer and movie; its
\* dateReturned and rentalFee are set and are the values the call's save wrote
\* to the rentals collection, its other fields are those of the stored rental.
C13_SuccessValueIsPersistedRental ==
  [][\A i \in Calls :
       /\ (pc[i] = "save" /\ pc'[i] = "update") =>
            LET doc == Val(loc[i].doc)
            IN /\ loc'[i] = loc[i]
               /\ rentals'[doc.id].dateReturned = doc.dateReturned
               /\ rentals'[doc.id].rentalFee = doc.rentalFee
       /\ (~Succeeded(i) /\ res'[i].status = 200) =>
            LET sent == Val(res'[i].rental)
                doc == Val(loc[i].doc)
            IN /\ Has(log[i], "saved")
               /\ {"dateOut", "dateReturned", "rentalFee", "customer", "movie"}
                    \subseteq DOMAIN sent
               /\ IsSet(sent.dateReturned) /\ IsSet(sent.rentalFee)
               /\ sent.dateReturned = doc.dateReturned
               /\ sent.rentalFee = doc.rentalFee
               /\ sent.dateOut = rentals[doc.id].dateOut
               /\ sent.customer = rentals[doc.id].customer
               /\ sent.movie = rentals[doc.id].movie]_vars

\* a call has succeeded alone on its rental and the rental it was sent is the
\* stored one
C13_Witness ==
  \E i \in Calls :
    /\ Succeeded(i)
    /\ \A j \in Calls \ {i} : ~Has(log[j], "saved")
    /\ Val(res[i].rental) = rentals[Val(res[i].rental).id]

\* C14: the fee a call computes is the whole days out times the
\* dailyRentalRate stored in the rental, which no step changes; the movie's
\* own dailyRentalRate, changed or not since checkout, has no part in it.
C14_FeeUsesRentalsOwnRate ==
  [][/\ \A r \in DOMAIN rentals :
          rentals'[r].dailyRentalRate = rentals[r].dailyRentalRate
     /\ \A i \in Calls :
          (pc[i] = "lookup" /\ pc'[i] = "save") =>
            LET doc == Val(loc'[i].doc)
            IN /\ doc.dailyRentalRate = rentals[doc.id].dailyRentalRate
               /\ doc.rentalFee =
                    Some(DiffDays(now', doc.dateOut) * rentals[doc.id].dailyRentalRate)]_vars

\* a rental taken out at rate 3 was returned with the fee 3 of one day, after
\* the movie's own rate was set to 4
C14_Witness ==
  \E i \in Calls :
    /\ Succeeded(i)
    /\ Val(res[i].rental).dailyRentalRate = 3
    /\ Val(res[i].rental).rentalFee = Some(3)
    /\ Val(res[i].rental).movie \in DOMAIN movies
    /\ movies[Val(res[i].rental).movie].dailyRentalRate = 4
    /\ Val(res[i].rental).dateReturned = Some(MaxTime)
    /\ \E k \in DOMAIN puts : puts[k].state = "saved"

\* C15: in every state of the rentals collection each rental has dateReturned
\* and rentalFee both unset (open) or both set (closed); no save leaves a
\* rental with one of the two set and the other unset.
C15_OpenOrClosed ==
  \A r \in DOMAIN rentals :
    IsSet(rentals[r].dateReturned) <=> IsSet(rentals[r].rentalFee)

\* a call's save has closed one rental, with a fee of 0, while another rental
\* is open
C15_Witness ==
  \E i \in Calls, r, q \in DOMAIN rentals :
    /\ Has(log[i], "saved")
    /\ rentals[r].dateReturned = Some(now) /\ rentals[r].rentalFee = Some(0)
    /\ ~IsSet(rentals[q].dateReturned) /\ ~IsSet(rentals[q].rentalFee)

\* C16: nothing keeps a second call for the same pair from reading the rental
\* while a first call has read it open and has not saved yet: the second
\* lookup resolves to the same rental, still open, passes the dateReturned
\* check and goes on to its own save; each of the two saves then writes the
\* rental.
C16_BothCallsPassTheCheck ==
  [][\A i \in Calls :
       LET r == RentalLookup(rentals, loc[i].customerId, loc[i].movieId)
       IN /\ ( /\ Steps(i, "lookup")
               /\ res'[i] # ErrorMiddleware
               /\ r # 0
               /\ ~Closed(r)
               /\ \E j \in Calls \ {i} : pc[j] = "save" /\ Val(loc[j].doc).id = r )
             => /\ pc'[i] = "save"
                /\ Val(loc'[i].doc).id = r
                /\ res'[i] = NoResponse
          /\ ( /\ pc[i] = "save" /\ pc'[i] = "update"
               /\ \E j \in Calls \ {i} : pc[j] \in {"save", "update"}
                                            /\ Val(loc[j].doc).id = Val(loc[i].doc).id )
             => /\ rentals'[Val(loc[i].doc).id].dateReturned = Val(loc[i].doc).dateReturned
                /\ rentals'[Val(loc[i].doc).id].rentalFee = Val(loc[i].doc).rentalFee]_vars

\* two calls have both read the same rental as open and neither has saved
C16_Witness ==
  \E i, j \in Calls :
    /\ i # j
    /\ pc[i] = "save" /\ pc[j] = "save"
    /\ Val(loc[i].doc).id = Val(loc[j].doc).id
    /\ ~Closed(Val(loc[i].doc).id)
    /\ ~Has(log[i], "saved") /\ ~Has(log[j], "saved")

\* the rentals collection as it was at the start: no step changes a rental's
\* id, customer, movie, dailyRentalRate or dateOut
InitialRentals ==
  CHOOSE store \in InitialStores :
    \A r \in DOMAIN rentals :
      /\ store[r].customer = rentals[r].customer
      /\ store[r].movie = rentals[r].movie
      /\ store[r].dateOut = rentals[r].dateOut

\* the calls for rental r's (customerId, movieId) pair whose save went through
Savers(r) ==
  {i \in Calls : /\ loc[i].customerId = rentals[r].customer
                 /\ loc[i].movieId = rentals[r].movie
                 /\ Has(log[i], "saved")}

\* no two calls that passed validation are for the same pair
DifferentPairs ==
  \A i, j \in Calls :
    (i # j /\ loc[i].customerId # Missing /\ loc[j].customerId # Missing)
    => (loc[i].customerId # loc[j].customerId \/ loc[i].movieId # loc[j].movieId)

\* the collections hold what the calls leave when run one after the other:
\* a rental is as at the start, or as the one call for its pair returned it,
\* and a movie's stock is its stock at the start plus one per call for that
\* movie whose update went through
SerialOutcome ==
  /\ \A r \in DOMAIN rentals :
       /\ Cardinality(Savers(r)) <= 1
       /\ Savers(r) = {} => rentals[r] = InitialRentals[r]
       /\ Savers(r) # {} =>
            \E t1, t2 \in 0..MaxTime :
              t1 <= t2 /\ rentals[r] = Return(InitialRentals[r], t1, t2)
  /\ \A i \in Calls :
       Succeeded(i) => rentals[Val(res[i].rental).id] = Val(res[i].rental)
  /\ \A m \in DOMAIN movies :
       movies[m].numberInStock =
         InitialMovies(rentals)[m].numberInStock
           + Cardinality({i \in Calls : Has(log[i], "updated") /\ loc[i].movieId = m})

\* C17: a step of a call changes no rental but one of the call's own
\* (customerId, movieId) pair and no movie but the call's own; and as long as
\* the calls are for different pairs, however their steps interleave, the two
\* collections hold what those calls leave when run one after the other.
C17_DifferentPairsIndependent ==
  /\ [][\A i \in Calls :
          /\ (pc[i] = "lookup" /\ pc'[i] = "save") =>
               /\ Val(loc'[i].doc).customer = loc[i].customerId
               /\ Val(loc'[i].doc).movie = loc[i].movieId
          /\ pc'[i] # pc[i] =>
               /\ loc'[i].customerId = loc[i].customerId \/ pc[i] = "idle"
               /\ loc'[i].movieId = loc[i].movieId \/ pc[i] = "idle"
               /\ \A r \in DOMAIN rentals :
                    rentals'[r] # rentals[r] =>
                      /\ rentals[r].customer = loc[i].customerId
                      /\ rentals[r].movie = loc[i].movieId
               /\ DOMAIN movies' = DOMAIN movies
               /\ \A m \in DOMAIN movies :
                    movies'[m] # movies[m] => m = loc[i].movieId]_vars
  /\ [](DifferentPairs => SerialOutcome)

\* two calls for different pairs and the same movie ran interleaved: both have
\* saved their rentals before either has updated the stock
C17_Witness ==
  /\ DifferentPairs
  /\ \E i, j \in Calls :
       /\ pc[i] = "update" /\ pc[j] = "update"
       /\ Val(loc[i].doc).id # Val(loc[j].doc).id
       /\ Val(loc[i].doc).movie = Val(loc[j].doc).movie
       /\ Closed(Val(loc[i].doc).id) /\ Closed(Val(loc[j].doc).id)

\* C18: when a call's stock update is rejected after its save went through,
\* the call is answered with the error response and the step writes nothing:
\* the rental stays closed, with the dateReturned and rentalFee of the call's
\* save when no other call saved the same rental. The same holds when the
\* process exits after the save: the call gets no success response and the
\* rental stays closed. No step ever puts a closed rental back to open, and a
\* rental is written by the save step of a call only.
C18_NoRollbackAfterFailedUpdate ==
  [][/\ \A i \in Calls :
          (pc[i] = "update" /\ pc'[i] # "update" /\ res'[i].status # 200) =>
            LET doc == Val(loc[i].doc)
            IN /\ rentals' = rentals
               /\ Closed(doc.id)
               /\ Savers(doc.id) = {i} =>
                    /\ rentals'[doc.id].dateReturned = doc.dateReturned
                    /\ rentals'[doc.id].rentalFee = doc.rentalFee
               /\ \/ res'[i] = ErrorMiddleware /\ pc'[i] = "done" /\ movies' = movies
                  \/ res'[i] = NoResponse /\ pc'[i] = "crashed"
     /\ \A r \in DOMAIN rentals :
          /\ Closed(r) => IsSet(rentals'[r].dateReturned) /\ IsSet(rentals'[r].rentalFee)
          /\ rentals'[r] # rentals[r] =>
               \E i \in Calls : /\ pc[i] = "save" /\ pc'[i] = "update"
                                 /\ Val(loc[i].doc).id = r]_vars

\* one call was answered 500 after its update was rejected, another was cut
\* off by the exit of the process after its save; both rentals are closed and
\* no stock was credited
C18_Witness ==
  \E i, j \in Calls :
    /\ Has(log[i], "update failed") /\ res[i] = ErrorMiddleware
    /\ Has(log[j], "saved") /\ pc[j] = "crashed"
    /\ \A r \in DOMAIN rentals : Closed(r) /\ Cardinality(Savers(r)) = 1
    /\ \A m \in DOMAIN movies :
         movies[m].numberInStock = InitialMovies(rentals)[m].numberInStock

\* the responses a call can end with: success, Unauthenticated, InvalidInput,
\* NotFound, AlreadyProcessed, StoreUnavailable
Outcomes ==
  MiddlewareFailures \cup {NotFoundResponse, AlreadyProcessedResponse, ErrorMiddleware}
    \cup {Send(Return(rentals[r], t1, t2)) : r \in DOMAIN rentals, t1 \in 0..MaxTime, t2 \in 0..MaxTime}

\* the order of a call's steps
StepOrder ==
  {<<"idle", "done">>, <<"idle", "lookup">>, <<"lookup", "done">>, <<"lookup", "save">>,
   <<"save", "done">>, <<"save", "update">>, <<"update", "done">>}

\* C19: with every store call completing or failing, every call that was
\* received ends (again and again no call is in flight, and a call that is
\* done stays done): it reaches "done" with exactly one response, one of the
\* six outcomes, and the response never changes afterwards; its steps only go
\* forward (request, lookup, save, update), none is taken twice; and a call in
\* flight can always take its next step whatever the other calls are doing.
C19_EveryCallEndsWithOneOutcome ==
  /\ []<>(\A i \in Calls : pc[i] \in {"idle", "done"})
  /\ [](\A i \in Calls :
          /\ pc[i] = "done" <=> res[i] # NoResponse
          /\ pc[i] = "done" => res[i] \in Outcomes
          /\ \A k, h \in DOMAIN log[i] : k # h => log[i][k] # log[i][h]
          /\ pc[i] \in {"lookup", "save", "update"} =>
               ENABLED (Lookup(i) \/ Save(i) \/ Update(i)))
  /\ [][\A i \in Calls :
          /\ pc'[i] # pc[i] => <<pc[i], pc'[i]>> \in StepOrder
          /\ res[i] # NoResponse => res'[i] = res[i]]_vars

\* both calls have ended, one with success after all three store calls, one
\* with the error response after its save was rejected
C19_Witness ==
  \E i, j \in Calls :
    /\ pc[i] = "done" /\ Succeeded(i)
    /\ log[i] = <<"auth", "validate", "lookup", "return", "save", "saved", "update",
                  "updated", "send">>
    /\ pc[j] = "done" /\ res[j] = ErrorMiddleware /\ Has(log[j], "save failed")

\* C20: a movie's numberInStock is changed by atomic increments only, never
\* set to a value fixed after an earlier read: so when a movie update's write
\* reaches the collection after a return has incremented the stock the update
\* had read, the stock still counts the return's +1.
C20_NoIncrementLost ==
  [][\A k \in DOMAIN puts :
       LET m == puts[k].movie
       IN ( /\ puts[k].state = "saving"
            /\ puts'[k].state = "saved"
            /\ m \in DOMAIN movies
            /\ IsSet(puts[k].set.numberInStock) )
          => movies'[m].numberInStock =
               Val(puts[k].set.numberInStock) + (movies[m].numberInStock - puts[k].read)]_vars

\* the calls that have succeeded in returning a rental of movie m
Returned(m) == {i \in Calls : Succeeded(i) /\ Val(res[i].rental).movie = m}

\* C21: when the calls that have succeeded for a movie are for pairwise
\* different rentals of it, n of them, the movie's numberInStock is exactly n
\* above what it was at the start, however the calls' steps interleaved; and
\* every step that completes an update finds the stock one above what it was
\* just before, whatever the other calls have added meanwhile.
C21_NoIncrementOfReturnsLost ==
  /\ [](\A m \in DOMAIN movies :
          (\A i, j \in Returned(m) :
             i # j => Val(res[i].rental).id # Val(res[j].rental).id)
          => movies[m].numberInStock =
               InitialMovies(rentals)[m].numberInStock + Cardinality(Returned(m)))
  /\ [][\A i \in Calls :
          LET m == Val(loc[i].doc).movie
          IN (pc[i] = "update" /\ res'[i].status = 200 /\ m \in DOMAIN movies)
             => movies'[m].numberInStock = movies[m].numberInStock + 1]_vars

\* two calls for two different rentals of the same movie have both succeeded
\* and the stock is two above the initial 10
C21_Witness ==
  \E i, j \in Calls :
    /\ i # j
    /\ Succeeded(i) /\ Succeeded(j)
    /\ Val(res[i].rental).id # Val(res[j].rental).id
    /\ Val(res[i].rental).movie = "m1" /\ Val(res[j].rental).movie = "m1"
    /\ "m1" \in DOMAIN movies
    /\ movies["m1"].numberInStock = 12

\* a rental without the two fields a return sets
Checkout(doc) == [doc EXCEPT !.dateReturned = None, !.rentalFee = None]

\* C22: no step of a call creates or deletes a rental, and no step changes a
\* rental's customer, movie, dailyRentalRate or dateOut; the only rental a
\* call's save changes is the one its lookup resolved, and it changes only
\* its dateReturned and rentalFee.
C22_ReturnChangesOnlyItsTwoFields ==
  [][/\ DOMAIN rentals' = DOMAIN rentals
     /\ \A r \in DOMAIN rentals :
          /\ Checkout(rentals'[r]) = Checkout(rentals[r])
          /\ rentals'[r].id = r
     /\ \A i \in Calls :
          (pc[i] = "lookup" /\ pc'[i] = "save") =>
            LET r == RentalLookup(rentals, loc[i].customerId, loc[i].movieId)
            IN /\ Val(loc'[i].doc).id = r
               /\ Checkout(Val(loc'[i].doc)) = Checkout(rentals[r])
     /\ \A i \in Calls :
          (pc[i] = "save" /\ pc'[i] # "save") =>
            \A r \in DOMAIN rentals :
              rentals'[r] # rentals[r] => r = Val(loc[i].doc).id]_vars

\* a call has closed one rental of a collection of two and the other is as it
\* was at the start
C22_Witness ==
  \E i \in Calls, r, q \in DOMAIN rentals :
    /\ Has(log[i], "saved")
    /\ Closed(r)
    /\ rentals[r] # InitialRentals[r]
    /\ Checkout(rentals[r]) = InitialRentals[r]
    /\ q # r /\ rentals[q] = InitialRentals[q]
    /\ Len(rentals) = 2

\* C23: in every state every rental's rentalFee is unset or at least 0, also
\* for rentals whose dateOut is later than the clock: a call that computes a
\* negative fee has its save rejected by the schema, so its update is never
\* issued and the rental stays open; a dateOut less than a day ahead gives the
\* fee 0.
C23_NoNegativeFeePersisted ==
  /\ \A r \in DOMAIN rentals :
       IsSet(rentals[r].rentalFee) => Val(rentals[r].rentalFee) >= 0
  /\ \A i \in Calls :
       /\ pc[i] = "update" => Val(Val(loc[i].doc).rentalFee) >= 0
       /\ Succeeded(i) => Val(Val(res[i].rental).rentalFee) >= 0

\* a call for the rental dated a day or more ahead computed a negative fee:
\* its save was rejected, it was answered 500 and the rental is open; the
\* rental dated less than a day ahead was closed with the fee 0
C23_Witness ==
  \E i \in Calls, r, q \in DOMAIN rentals :
    /\ rentals[r].dateOut >= now + TicksPerDay
    /\ loc[i].customerId = rentals[r].customer /\ loc[i].movieId = rentals[r].movie
    /\ log[i] = <<"auth", "validate", "lookup", "return", "save", "save failed", "error">>
    /\ res[i] = ErrorMiddleware
    /\ ~Closed(r)
    /\ rentals[q].dateOut > now /\ rentals[q].rentalFee = Some(0)

\* ------------------------------------------------------------ /api/genres
StoredIds(store) == {store[k].id : k \in DOMAIN store}
GoodName(n) == IsSet(n) /\ Len(Val(n)) >= 5 /\ Len(Val(n)) <= 50

\* C24: GET /api/genres/:id whose query the store answers responds 404 when the
\* id is not a valid object id, and 404 when the id is valid and no stored
\* genre has it.
C24_BadOrUnknownIdIs404 ==
  (/\ greq.op = "GET /:id"
   /\ greq.ok
   /\ \/ ~GenreIdIsValid(greq.param)
      \/ greq.param \notin StoredIds(genres))
  => greq.status = 404

\* C25: a POST /api/genres with a valid token and a name shorter than 5 or
\* longer than 50 characters is answered 400 and the stored genres are the
\* ones from before the request.
C25_BadLengthIs400 ==
  (/\ greq.op = "POST /"
   /\ greq.token = GoodToken
   /\ greq.ok
   /\ IsSet(greq.name)
   /\ (Len(Val(greq.name)) < 5 \/ Len(Val(greq.name)) > 50))
  => (greq.status = 400 /\ genres = greq.before)

\* C26: a POST /api/genres without a token is answered 401 with the stored
\* genres unchanged, whatever its body, and only auth ran; validation and
\* save run only in requests that carry a token auth accepts, after auth.
C26_NoTokenIs401AndHandlerAfterAuth ==
  greq.op = "POST /" =>
    /\ greq.token = NoToken =>
         /\ greq.status = 401
         /\ genres = greq.before
         /\ greq.ran = <<"auth">>
    /\ (Has(greq.ran, "validate") \/ Has(greq.ran, "save") \/ genres # greq.before) =>
         /\ greq.token = GoodToken
         /\ greq.ran[1] = "auth"

\* a POST without a token and with a body that is valid was answered 401
C26_Witness ==
  /\ greq.op = "POST /"
  /\ greq.token = NoToken
  /\ greq.name = Some("genre3")
  /\ greq.ok
  /\ greq.status = 401
  /\ genres = greq.before /\ genres # <<>>

\* C27: a POST /api/genres with a valid token and a name of 5 to 50 characters
\* that the store accepts appends exactly one genre of that name with a new
\* _id, keeps the genres stored before and responds 200 with that genre; a
\* GET /api/genres the store answers responds 200 with every stored genre,
\* each once.
C27_PostAddsOneGenreAndGetReturnsAll ==
  /\ (greq.op = "POST /" /\ greq.token = GoodToken /\ greq.ok /\ GoodName(greq.name)) =>
       /\ greq.status = 200
       /\ Len(genres) = Len(greq.before) + 1
       /\ SubSeq(genres, 1, Len(greq.before)) = greq.before
       /\ genres[Len(genres)].name = Val(greq.name)
       /\ genres[Len(genres)].id \notin StoredIds(greq.before)
       /\ greq.docs = <<genres[Len(genres)]>>
  /\ (greq.op = "GET /" /\ greq.ok) =>
       /\ greq.status = 200
       /\ Len(greq.docs) = Len(genres)
       /\ StoredIds(greq.docs) = StoredIds(genres)
       /\ \A k \in DOMAIN greq.docs : \E j \in DOMAIN genres : greq.docs[k] = genres[j]

\* a GET after a POST: the response holds the posted genre next to the two
\* that were stored before
C27_Witness ==
  /\ greq.op = "GET /" /\ greq.ok /\ greq.status = 200
  /\ Len(genres) = 3
  /\ genres[3].name = "genre1"
  /\ \E k \in DOMAIN greq.docs : greq.docs[k] = genres[3]
  /\ Len(greq.docs) = 3

\* ------------------------------------------------ calls for the same pair
\* the calls whose `Movie.update(.., { $inc: { numberInStock: 1 } })` was
\* applied after they saved rental r
Incremented(r) ==
  {i \in Calls : /\ Has(log[i], "updated")
                 /\ Succeeded(i)
                 /\ Val(res[i].rental).id = r}

\* C28: however the steps of the calls for one (customerId, movieId) pair
\* interleave, at most one of them has incremented the movie's stock for a
\* given rental.
C28_StockIncrementedOncePerRental ==
  \A r \in DOMAIN rentals : Cardinality(Incremented(r)) <= 1

\* ------------------------------------------------- the missing increment
\* call i's increment reached the movies collection
Applied(i) == Has(log[i], "updated")

\* the rentals of movie m that a call has saved as closed
ClosedByCall(m) ==
  {r \in DOMAIN rentals : rentals[r].movie = m /\ Savers(r) # {}}

\* those of them whose saver's increment has not been applied
NotCredited(m) ==
  {r \in ClosedByCall(m) : \E i \in Savers(r) : ~Applied(i)}

\* C29: an increment is applied only by the update step of the call that
\* saved the rental itself (or by that call's issued update reaching the
\* store as the process exits); a call whose update was rejected, or that was
\* cut off by the exit of the process, never applies it afterwards; every call
\* whose lookup resolves to the closed rental is answered AlreadyProcessed and
\* goes no further; so, no rental being saved by two racing calls, a movie's
\* stock is in every state its initial stock plus the rentals closed by a
\* call, less the ones whose increment is missing.
C29_MissingIncrementNeverApplied ==
  /\ [][\A i \in Calls :
          /\ (Applied(i)' /\ ~Applied(i)) =>
               /\ pc[i] = "update"
               /\ Has(log[i], "saved")
               /\ ~Has(log[i], "update failed")
          /\ (pc[i] \in {"done", "crashed"}) =>
               /\ pc'[i] = pc[i]
               /\ Applied(i)' = Applied(i)
          /\ LET r == RentalLookup(rentals, loc[i].customerId, loc[i].movieId)
             IN (Steps(i, "lookup") /\ pc'[i] # "crashed" /\ res'[i] # ErrorMiddleware
                  /\ r # 0 /\ Closed(r))
                => /\ res'[i] = AlreadyProcessedResponse
                   /\ pc'[i] = "done"
                   /\ rentals' = rentals /\ movies' = movies]_vars
  /\ []((\A r \in DOMAIN rentals : Cardinality(Savers(r)) <= 1) =>
          \A m \in DOMAIN movies :
            movies[m].numberInStock =
              InitialMovies(rentals)[m].numberInStock
                + Cardinality(ClosedByCall(m)) - Cardinality(NotCredited(m)))

\* a call saved the rental and the process exited before its increment was
\* applied; a later call for the same pair was answered AlreadyProcessed and
\* the stock is still the initial one, with one rental closed
C29_Witness ==
  \E i, j \in Calls, r \in DOMAIN rentals :
    /\ pc[i] = "crashed" /\ Savers(r) = {i} /\ ~Applied(i)
    /\ j # i /\ pc[j] = "done"
    /\ loc[j].customerId = rentals[r].customer /\ loc[j].movieId = rentals[r].movie
    /\ res[j] = AlreadyProcessedResponse
    /\ Closed(r)
    /\ rentals[r].movie \in DOMAIN movies
    /\ movies[rentals[r].movie].numberInStock
         = InitialMovies(rentals)[rentals[r].movie].numberInStock
    /\ Cardinality(ClosedByCall(rentals[r].movie)) = 1

\* ------------------------------------------------- the two clock readings
\* C30: every closed rental's persisted rentalFee is the whole days from its
\* dateOut to its persisted dateReturned, times its dailyRentalRate.
C30_FeeAgreesWithDateReturned ==
  \A r \in DOMAIN rentals :
    Closed(r) =>
      rentals[r].rentalFee =
        Some(DiffDays(Val(rentals[r].dateReturned), rentals[r].dateOut)
               * rentals[r].dailyRentalRate)

\* ------------------------------------------------ the response comes last
\* C31: the step that sends a call's success response is the one in which its
\* awaited Movie.update resolves: the call's save has gone through before,
\* the rental is closed in the store, the update has been applied (the stock
\* of the rental's movie, when the movie document exists, is one above what it
\* was before the step) and the response is the last thing the call does.
C31_SuccessSentAfterSaveAndUpdate ==
  /\ [][\A i \in Calls :
          (~Succeeded(i) /\ Succeeded(i)') =>
            LET doc == Val(loc[i].doc)
            IN /\ pc[i] = "update"
               /\ Has(log[i], "saved")
               /\ Closed(doc.id) /\ rentals' = rentals
               /\ log'[i] = log[i] \o <<"updated", "send">>
               /\ doc.movie \in DOMAIN movies =>
                    movies'[doc.movie].numberInStock
                      = movies[doc.movie].numberInStock + 1]_vars
  /\ [](\A i \in Calls :
          Succeeded(i) =>
            \E s, u \in DOMAIN log[i] :
              /\ log[i][s] = "saved" /\ log[i][u] = "updated"
              /\ s < u /\ u < Len(log[i])
              /\ log[i][Len(log[i])] = "send")

\* a call has its success response, its rental is closed and the stock of the
\* rental's movie is one above the initial 10
C31_Witness ==
  \E i \in Calls :
    /\ Succeeded(i)
    /\ Closed(Val(res[i].rental).id)
    /\ Val(res[i].rental).movie = "m1" /\ "m1" \in DOMAIN movies
    /\ movies["m1"].numberInStock = 11
    /\ \A j \in Calls \ {i} : pc[j] = "idle"

\* ------------------------------------------------- one save, both fields
\* C32: whenever a rental's document changes, the step is the save of one
\* call that holds that rental, and the dateReturned and the rentalFee in the
\* store after the step are both the ones of that call's document, also when
\* another call has saved the same rental before with other values.
C32_BothFieldsFromOneSave ==
  [][\A r \in DOMAIN rentals :
       rentals'[r] # rentals[r] =>
         \E i \in Calls :
           /\ pc[i] = "save" /\ pc'[i] = "update"
           /\ Val(loc[i].doc).id = r
           /\ rentals'[r].dateReturned = Val(loc[i].doc).dateReturned
           /\ rentals'[r].rentalFee = Val(loc[i].doc).rentalFee
           /\ \A q \in DOMAIN rentals : q # r => rentals'[q] = rentals[q]]_vars

\* two calls read the same rental as open at different times and both have
\* saved it; their dateReturned and rentalFee differ and the store holds the
\* pair of one of them
C32_Witness ==
  \E i, j \in Calls :
    LET a == Val(loc[i].doc)
        b == Val(loc[j].doc)
    IN /\ i # j
       /\ pc[i] = "update" /\ pc[j] = "update"
       /\ a.id = b.id
       /\ a.dateReturned # b.dateReturned /\ a.rentalFee # b.rentalFee
       /\ rentals[b.id].dateReturned = b.dateReturned
       /\ rentals[b.id].rentalFee = b.rentalFee

\* ------------------------------------------------------- store failures
StoreFailures == {"lookup failed", "save failed", "update failed"}
\* the events of log[i] after position k
After(i, k) == {log[i][h] : h \in (k + 1)..Len(log[i])}

\* C33: a call whose lookup is rejected by the store ends in that step with
\* the error response, with rentals and movies as they were, and never saves
\* or updates; in every call a rejected lookup, save or update is followed by
\* the error response only: no later step of the call runs.
C33_StoreFailureEndsTheCall ==
  /\ [][\A i \in Calls :
          (~Has(log[i], "lookup failed") /\ Has(log'[i], "lookup failed")) =>
            /\ pc[i] = "lookup" /\ pc'[i] = "done"
            /\ res'[i] = ErrorMiddleware
            /\ rentals' = rentals /\ movies' = movies]_vars
  /\ [](\A i \in Calls : \A k \in DOMAIN log[i] :
          log[i][k] \in StoreFailures =>
            /\ After(i, k) = {"error"}
            /\ pc[i] = "done"
            /\ res[i] = ErrorMiddleware
            /\ log[i][k] = "lookup failed" =>
                 {"save", "saved", "update", "updated"} \cap After(i, 0) = {}
            /\ log[i][k] = "save failed" =>
                 {"saved", "update", "updated"} \cap After(i, 0) = {}
            /\ log[i][k] = "update failed" => ~Has(log[i], "updated"))

\* one call's lookup was rejected and another call's save was: both were
\* answered 500, every rental is open and the stock is the initial one
C33_Witness ==
  \E i, j \in Calls :
    /\ Has(log[i], "lookup failed") /\ res[i] = ErrorMiddleware
    /\ Has(log[j], "save failed") /\ res[j] = ErrorMiddleware
    /\ rentals = InitialRentals
    /\ \A r \in DOMAIN rentals : ~Closed(r)
    /\ \A m \in DOMAIN movies :
         movies[m].numberInStock = InitialMovies(rentals)[m].numberInStock

\* ------------------------------------------------------ the open rental
\* no store call of any invocation has been rejected
NoStoreFailure ==
  \A i \in Calls : \A k \in DOMAIN log[i] : log[i][k] \notin StoreFailures

\* every invoked call has terminated
AllTerminated == \A i \in Calls : pc[i] \in {"idle", "done"}

\* the calls that passed auth and validation for rental r's pair
InvokedFor(r) ==
  {i \in Calls : /\ pc[i] # "idle"
                 /\ tok[i] = GoodToken
                 /\ loc[i].customerId = rentals[r].customer
                 /\ loc[i].movieId = rentals[r].movie}

\* C34: with no store call rejected, once every invoked call has terminated,
\* no rental is open for whose (customerId, movieId) pair an authenticated
\* call with valid ids was invoked.
C34_NoRentalLeftOpen ==
  (NoStoreFailure /\ AllTerminated) =>
    \A r \in DOMAIN rentals : InvokedFor(r) # {} => Closed(r)

\* ------------------------------------------------------ customerId first
BadIds == {Missing, Malformed}

\* C35: for a request that passed auth, validation answers InvalidInput for
\* customerId whenever customerId is missing or malformed, whatever movieId
\* is; it answers InvalidInput for movieId exactly when customerId is valid
\* and movieId is missing or malformed; one failure is reported, and with both
\* ids valid the request goes on to the handler.
C35_CustomerIdCheckedFirst ==
  vreq.token = GoodToken =>
    /\ vreq.ran = <<"auth", "validate">>
    /\ vreq.body.customerId \in BadIds => vreq.res = Response(400, "customerId")
    /\ vreq.res = Response(400, "movieId") <=>
         (vreq.body.customerId \notin BadIds /\ vreq.body.movieId \in BadIds)
    /\ (vreq.body.customerId \notin BadIds /\ vreq.body.movieId \notin BadIds)
         <=> vreq.res = CallNext

\* a request with a valid token, no customerId and a malformed movieId was
\* answered InvalidInput for customerId
C35_Witness ==
  /\ vreq.token = GoodToken
  /\ vreq.body = [customerId |-> Missing, movieId |-> Malformed]
  /\ vreq.res = Response(400, "customerId")

====
